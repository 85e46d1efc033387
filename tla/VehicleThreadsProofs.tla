------------------------ MODULE VehicleThreadsProofs ------------------------
(***************************************************************************)
(* Theorems about VehicleThreads: what the unprotected structure keeps to,   *)
(* however many threads submit commands, with whatever priorities, and       *)
(* wherever they interrupt each other.                                       *)
(***************************************************************************)
EXTENDS VehicleThreads, VehicleControlManagerProofs

Output == [Side -> -100..100]

\* The locals of an update, between any two of its steps.
LocalType ==
    local \in [now : 0..TimeMod-1, dt : 1..MaxDt, elapsed : 0..TimeMod-1,
               linear : Axis, angular : Axis, mixed : Output, slewed : Output,
               out : Output]

\* A thread that handles a command has one.
HandlersHaveCommands ==
    /\ pc = [t \in Thread |-> pc[t]]
    /\ msg \in [Submitters -> [cmd : CommandType \cup {NULL}, stamp : 0..TimeMod-1]]
    /\ \A t \in Submitters : pc[t] # "idle" => msg[t].cmd \in CommandType

DriverType ==
    /\ last \in [out : Output, applied_once : BOOLEAN]
    /\ drive \in [Motor -> -100..100]
    /\ submitted \in 0..MaxCommands /\ faults \in 0..MaxFaults
    /\ false_start \in BOOLEAN

\* ThreadsTypeOK with the parts it leaves out.
ThreadsType == TypeOK /\ LocalType /\ HandlersHaveCommands /\ DriverType

LEMMA ThreadsTypeImplies == ThreadsType => ThreadsTypeOK
BY DEF ThreadsType, ThreadsTypeOK, LocalType, DriverType, Output

LEMMA LocalsType ==
    NoLocals \in [now : 0..TimeMod-1, dt : 1..MaxDt, elapsed : 0..TimeMod-1,
                  linear : Axis, angular : Axis, mixed : Output, slewed : Output,
                  out : Output]
<1>1. 0 \in 0..TimeMod-1
    BY ClockAssumption
<1>2. 1 \in 1..MaxDt
    BY ConfigIsUsable DEF UInt16
<1>. QED BY <1>1, <1>2, AtZeroType, AxisIsInt DEF NoLocals, Output

LEMMA NoMsgType == NoMsg \in [cmd : CommandType \cup {NULL}, stamp : 0..TimeMod-1]
BY ClockAssumption DEF NoMsg

LEMMA ThreadsTypeInit == ThreadsInit => ThreadsType
<1>. SUFFICES ASSUME ThreadsInit PROVE ThreadsType
    OBVIOUS
<1>. USE DEF ThreadsInit
<1>1. TypeOK
    BY TypeInit
<1>2. LocalType
    BY LocalsType DEF LocalType
<1>3. HandlersHaveCommands
    <2>1. pc = [t \in Thread |-> pc[t]]
        OBVIOUS
    <2>2. msg \in [Submitters -> [cmd : CommandType \cup {NULL}, stamp : 0..TimeMod-1]]
        BY NoMsgType
    <2>3. \A t \in Submitters : pc[t] = "idle"
        BY ThreadAssumption DEF Thread
    <2>. QED BY <2>1, <2>2, <2>3 DEF HandlersHaveCommands
<1>4. DriverType
    <2>1. false_start \in BOOLEAN
        OBVIOUS
    <2>2. /\ last \in [out : Output, applied_once : BOOLEAN]
          /\ drive \in [Motor -> -100..100]
          /\ submitted \in 0..MaxCommands /\ faults \in 0..MaxFaults
        BY AtZeroType, BoundAssumption DEF Output
    <2>. QED BY <2>1, <2>2 DEF DriverType
<1>. QED BY <1>1, <1>2, <1>3, <1>4 DEF ThreadsType

\* The motor thread is not a submitter: a step of one leaves the other where it is.
LEMMA GotoKeepsHandlers ==
    ASSUME HandlersHaveCommands, UNCHANGED msg, NEW label,
           pc' = [pc EXCEPT !["motor"] = label]
    PROVE  HandlersHaveCommands'
BY ThreadAssumption DEF HandlersHaveCommands, Thread

\* What one ramp reading computes.
LEMMA RampReadType ==
    ASSUME TypeOK, LocalType, NEW s \in Side
    PROVE  LET r == SlewLimitMotorPct(current_pct[s], target_pct[s],
                                      StepUp(local.dt), StepDown(local.dt))
           IN  /\ r \in -100..100
               /\ ~DifferentSignNonzero(current_pct[s], r)
               /\ Abs(r) <= Abs(current_pct[s]) \/ Abs(r) <= Abs(target_pct[s])
<1>. DEFINE up == StepUp(local.dt)  down == StepDown(local.dt)
            c == current_pct[s]  t == target_pct[s]
            r == SlewLimitMotorPct(c, t, up, down)
<1>1. up \in Nat \ {0} /\ down \in Nat \ {0}
    <2>1. local.dt \in Nat /\ RampUp \in Nat /\ RampDown \in Nat
        BY ConfigIsUsable DEF LocalType, UInt16
    <2>2. up \in 1..100 /\ down \in 1..100
        BY <2>1, StepInRange DEF StepUp, StepDown
    <2>. QED BY <2>2
<1>2. c \in -100..100 /\ t \in -100..100
    BY DEF TypeOK
<1>. HIDE DEF up, down, c, t
<1>3. c \in Int /\ t \in Int
    BY <1>2
<1>4. /\ r \in Int
      /\ ~DifferentSignNonzero(c, r)
      /\ Abs(r) <= Abs(c) \/ Abs(r) <= Abs(t)
    BY <1>1, <1>3, SlewIsGentle, Zenon
<1>. HIDE DEF r
<1>5. r \in -100..100
    BY <1>2, <1>4 DEF Abs
<1>. QED BY <1>4, <1>5 DEF r, up, down, c, t

LEMMA SideOfMotor == \A m \in Motor : SideOf(m) \in Side
BY DEF SideOf, Side

\* What the mixer puts together, from whichever commands.
LEMMA MixedType ==
    ASSUME TypeOK, LocalType
    PROVE  LET t == DifferentialTargets(local.linear, local.angular,
                                        LimitSpeed(current_speed_limit_pct))
           IN  /\ t \in [Side -> -100..100]
               /\ \A s \in Side : Abs(t[s]) <= SAFE_MAX_SPEED_LIMIT_PCT
<1>. DEFINE linear  == local.linear
            angular == local.angular
            limit   == LimitSpeed(current_speed_limit_pct)
            t       == DifferentialTargets(linear, angular, limit)
<1>1. linear \in Int /\ angular \in Int
    BY AxisIsInt DEF LocalType
<1>2. limit \in 0..SAFE_MAX_SPEED_LIMIT_PCT /\ limit \in 0..100
    BY SafeMaxAssumption DEF TypeOK, LimitSpeed, Clamp, Percent
<1>. HIDE DEF linear, angular, limit
<1>3. t \in [Side -> -100..100] /\ \A s \in Side : Abs(t[s]) <= limit
    BY <1>1, <1>2, TargetsWithinLimit, Zenon
<1>. HIDE DEF t
<1>4. ASSUME NEW s \in Side PROVE Abs(t[s]) <= SAFE_MAX_SPEED_LIMIT_PCT
    <2>1. t[s] \in -100..100 /\ Abs(t[s]) <= limit
        BY <1>3, <1>4
    <2>. QED BY <2>1, <1>2, SafeMaxAssumption DEF Abs, Percent
<1>. QED BY <1>3, <1>4 DEF t, linear, angular, limit

\* One step of the motor thread keeps all types.
LEMMA MotorTypeNext == ThreadsType /\ MotorStep => ThreadsType'
<1>. SUFFICES ASSUME ThreadsType, MotorStep PROVE ThreadsType'
    OBVIOUS
<1>. USE DEF ThreadsType, vars, clockAndCommand, commandVars, outputVars, updateVars,
             flags, motorSide, driverSide, submitSide, Goto
<1>a. UNCHANGED msg /\ \E label : pc' = [pc EXCEPT !["motor"] = label]
    BY DEF MotorStep, Wake, CheckLatch, CheckActive, ReadAge, CheckTtl, Lapse,
           ReadLinear, ReadAngular, MixTargets, WriteTarget, RampRead, RampWrite,
           ReadOutput, Apply
<1>b. HandlersHaveCommands'
    BY <1>a, GotoKeepsHandlers
<1>0. NowMs \in 0..TimeMod-1
    BY ClockReading DEF TypeOK, NowMs
<1>1. CASE Wake
    <2>1. UpdateDt \in 1..MaxDt
        BY UpdateSteps
    <2>2. TypeOK'
        <3>1. uptime \in 0..uptime
            BY DEF TypeOK
        <3>. QED BY <1>0, <1>1, <3>1 DEF Wake, UpdateClock, TypeOK
    <2>3. LocalType'
        BY <1>0, <1>1, <2>1, LocalsType DEF Wake, LocalType
    <2>4. DriverType'
        BY <1>1 DEF Wake, DriverType
    <2>. QED BY <1>b, <2>2, <2>3, <2>4
<1>2. CASE CheckLatch
    BY <1>2, <1>b, AtZeroType DEF CheckLatch, TypeOK, LocalType, DriverType
<1>3. CASE CheckActive \/ CheckTtl
    BY <1>3, <1>b DEF CheckActive, CheckTtl, TypeOK, LocalType, DriverType
<1>4. CASE ReadAge
    <2>1. (local.now - last_command_time_ms) % TimeMod \in 0..TimeMod-1
        <3>1. local.now - last_command_time_ms \in Int
            BY ClockAssumption DEF TypeOK, LocalType
        <3>. QED BY <3>1, ClockReading
    <2>2. LocalType'
        BY <1>4, <2>1 DEF ReadAge, LocalType
    <2>. QED BY <1>4, <1>b, <2>2 DEF ReadAge, TypeOK, DriverType
<1>5. CASE Lapse
    BY <1>5, <1>b, AtZeroType DEF Lapse, TypeOK, LocalType, DriverType
<1>6. CASE ReadLinear
    <2>1. ClampAxis(active_cmd.linear_x) \in Axis
        BY ClampAxisInRange, AxisIsInt DEF TypeOK
    <2>2. LocalType'
        BY <1>6, <2>1 DEF ReadLinear, LocalType
    <2>. QED BY <1>6, <1>b, <2>2 DEF ReadLinear, TypeOK, DriverType
<1>7. CASE MixTargets
    <2>. DEFINE t == DifferentialTargets(local.linear, local.angular,
                                         LimitSpeed(current_speed_limit_pct))
    <2>1. t \in Output
        BY MixedType DEF Output
    <2>2. local' = [local EXCEPT !.mixed = t]
        BY <1>7 DEF MixTargets
    <2>. HIDE DEF t
    <2>3. LocalType'
        BY <2>1, <2>2 DEF LocalType
    <2>. QED BY <1>7, <1>b, <2>3 DEF MixTargets, TypeOK, DriverType
<1>8. ASSUME NEW s \in Side, NEW here, NEW next, RampRead(s, here, next)
      PROVE  ThreadsType'
    <2>. DEFINE r == SlewLimitMotorPct(current_pct[s], target_pct[s],
                                       StepUp(local.dt), StepDown(local.dt))
    <2>1. r \in -100..100
        BY <1>8, RampReadType
    <2>2. local' = [local EXCEPT !.slewed[s] = r]
        BY <1>8 DEF RampRead
    <2>. HIDE DEF r
    <2>3. LocalType'
        BY <1>8, <2>1, <2>2 DEF LocalType, Output
    <2>. QED BY <1>8, <1>b, <2>3 DEF RampRead, TypeOK, DriverType
<1>9. ASSUME NEW s \in Side, NEW here, NEW next, RampWrite(s, here, next)
      PROVE  ThreadsType'
    <2>1. current_pct' \in Output
        BY <1>9 DEF RampWrite, TypeOK, LocalType, Output
    <2>. QED BY <1>9, <1>b, <2>1 DEF RampWrite, TypeOK, LocalType, DriverType, Output
<1>10. CASE ReadOutput
    <2>1. PICK held \in SUBSET Side :
             local' = [local EXCEPT !.slewed = AtZero,
                          !.out = [s \in Side |-> IF s \in held THEN local.slewed[s]
                                                  ELSE current_pct[s]]]
        BY <1>10 DEF ReadOutput
    <2>2. [s \in Side |-> IF s \in held THEN local.slewed[s] ELSE current_pct[s]]
             \in Output
        BY DEF TypeOK, LocalType, Output
    <2>3. LocalType'
        BY <2>1, <2>2, AtZeroType DEF LocalType, Output
    <2>. QED BY <1>10, <1>b, <2>3 DEF ReadOutput, TypeOK, DriverType
<1>11. CASE Apply
    <2>1. DriverType'
        <3>1. CASE UNCHANGED driverSide
            BY <1>11, <3>1 DEF Apply, DriverType, driverSide
        <3>2. CASE DriverSucceeds
            <4>1. false_start' \in BOOLEAN
                BY <3>2 DEF DriverSucceeds
            <4>2. /\ last' \in [out : Output, applied_once : BOOLEAN]
                  /\ drive' \in [Motor -> -100..100]
                BY <3>2, SideOfMotor DEF DriverSucceeds, LocalType, Output
            <4>3. UNCHANGED <<submitted, faults>>
                BY <1>11, <3>2 DEF Apply, DriverSucceeds
            <4>. QED BY <4>1, <4>2, <4>3 DEF DriverType
        <3>3. CASE DriverFails
            <4>1. false_start' \in BOOLEAN
                BY <3>3 DEF DriverFails, AtRest
            <4>2. drive' \in [Motor -> -100..100]
                BY <3>3, SideOfMotor
                DEF DriverFails, DrivesPartly, DriverType, LocalType, Output
            <4>3. UNCHANGED <<submitted, last>> /\ faults' \in 0..MaxFaults
                BY <1>11, <3>3, BoundAssumption DEF Apply, DriverFails, DriverType
            <4>. QED BY <4>1, <4>2, <4>3 DEF DriverType
        <3>. QED BY <1>11, <3>1, <3>2, <3>3 DEF Apply
    <2>. QED BY <1>11, <1>b, <2>1, LocalsType DEF Apply, TypeOK, LocalType
<1>12. "left" \in Side /\ "right" \in Side
    BY DEF Side
<1>13. CASE ReadAngular
    <2>1. ClampAxis(active_cmd.angular_z) \in Axis
        BY ClampAxisInRange, AxisIsInt DEF TypeOK
    <2>2. LocalType'
        BY <1>13, <2>1 DEF ReadAngular, LocalType
    <2>. QED BY <1>13, <1>b, <2>2 DEF ReadAngular, TypeOK, DriverType
<1>14. ASSUME NEW s \in Side, NEW here, NEW next, WriteTarget(s, here, next)
       PROVE  ThreadsType'
    <2>1. target_pct' \in Output
        BY <1>14 DEF WriteTarget, TypeOK, LocalType, Output
    <2>. QED BY <1>14, <1>b, <2>1 DEF WriteTarget, TypeOK, LocalType, DriverType, Output
<1>. QED BY <1>1, <1>2, <1>3, <1>4, <1>5, <1>6, <1>7, <1>8, <1>9, <1>10, <1>11, <1>12,
            <1>13, <1>14
         DEF MotorStep

\* A step of a handler that goes on keeps its command; one that finishes drops it.
LEMMA GotoKeepsCommands ==
    ASSUME HandlersHaveCommands, NEW t \in Submitters, pc[t] # "idle",
           UNCHANGED msg, NEW label, pc' = [pc EXCEPT ![t] = label]
    PROVE  HandlersHaveCommands'
BY ThreadAssumption DEF HandlersHaveCommands, Thread

LEMMA FinishKeepsCommands ==
    ASSUME HandlersHaveCommands, NEW t \in Submitters, Finish(t)
    PROVE  HandlersHaveCommands'
BY ThreadAssumption, NoMsgType DEF HandlersHaveCommands, Thread, Finish, Goto

\* One step of a submitting thread keeps all types.
LEMMA SubmitterTypeNext ==
    ASSUME ThreadsType, NEW t \in Submitters, SubmitterStep(t)
    PROVE  ThreadsType'
<1>. USE DEF ThreadsType, vars, clockAndCommand, commandVars, outputVars, updateVars,
             flags, motorSide, driverSide, submitSide, Goto, At
<1>1. CASE \E cmd \in CommandsOf[t] : Submit(t, cmd)
    <2>1. PICK cmd \in CommandsOf[t] : Submit(t, cmd)
        BY <1>1
    <2>2. cmd \in CommandType
        BY ThreadAssumption
    <2>3. NowMs \in 0..TimeMod-1
        BY ClockReading DEF TypeOK, NowMs
    <2>4. HandlersHaveCommands'
        <3>1. CASE Entry(cmd) = "idle"
            BY <2>1, <3>1, ThreadAssumption DEF Submit, HandlersHaveCommands, Thread
        <3>2. CASE Entry(cmd) # "idle"
            <4>. DEFINE m == [cmd |-> cmd, stamp |-> NowMs]
            <4>1. m \in [cmd : CommandType \cup {NULL}, stamp : 0..TimeMod-1]
                BY <2>2, <2>3
            <4>2. m.cmd \in CommandType
                BY <2>2
            <4>3. msg' = [msg EXCEPT ![t] = m] /\ \E label : pc' = [pc EXCEPT ![t] = label]
                BY <2>1, <3>2 DEF Submit
            <4>. HIDE DEF m
            <4>. QED BY <4>1, <4>2, <4>3, ThreadAssumption DEF HandlersHaveCommands,
                Thread
        <3>. QED BY <3>1, <3>2
    <2>5. DriverType'
        BY <2>1, BoundAssumption DEF Submit, DriverType
    <2>. QED BY <2>1, <2>4, <2>5 DEF Submit, TypeOK, LocalType
<1>2. ASSUME pc[t] # "idle" PROVE msg[t].cmd \in CommandType
    BY <1>2 DEF HandlersHaveCommands
<1>3. CASE HandleSetSpeed(t)
    <2>1. msg[t].cmd.speed_limit_pct \in Percent
        BY <1>2, <1>3 DEF HandleSetSpeed, CommandType
    <2>2. current_speed_limit_pct' \in 0..SAFE_MAX_SPEED_LIMIT_PCT
        BY <1>3, <2>1, LimitIsSafe DEF HandleSetSpeed
    <2>3. HandlersHaveCommands'
        BY <1>3, FinishKeepsCommands DEF HandleSetSpeed
    <2>. QED BY <1>3, <2>2, <2>3 DEF HandleSetSpeed, TypeOK, LocalType, DriverType
<1>4. CASE StopReleasesLatch(t) \/ EStopLatches(t) \/ Deactivate(t)
    <2>1. HandlersHaveCommands'
        BY <1>4, GotoKeepsCommands DEF StopReleasesLatch, EStopLatches, Deactivate
    <2>2. TypeOK'
        BY <1>4 DEF StopReleasesLatch, EStopLatches, Deactivate, TypeOK
    <2>3. LocalType' /\ DriverType'
        BY <1>4 DEF StopReleasesLatch, EStopLatches, Deactivate, LocalType, DriverType
    <2>. QED BY <2>1, <2>2, <2>3
<1>5. ASSUME NEW s \in Side, NEW here, here # "idle", NEW next, ZeroTarget(t, s, here, next)
      PROVE  ThreadsType'
    <2>1. HandlersHaveCommands'
        BY <1>5, FinishKeepsCommands, GotoKeepsCommands DEF ZeroTarget, GotoOrFinish
    <2>2. target_pct' \in Output
        BY <1>5 DEF ZeroTarget, TypeOK, Output
    <2>. QED BY <1>5, <2>1, <2>2 DEF ZeroTarget, TypeOK, LocalType, DriverType, Output
<1>6. CASE MotionChecksLatch(t)
    <2>1. HandlersHaveCommands'
        BY <1>6, FinishKeepsCommands, GotoKeepsCommands DEF MotionChecksLatch
    <2>. QED BY <1>6, <2>1 DEF MotionChecksLatch, TypeOK, LocalType, DriverType
<1>7. ASSUME NEW here, here # "idle", NEW next, MotionCopiesLinear(t, here, next)
      PROVE  ThreadsType'
    <2>1. Accepted(msg[t].cmd).linear_x \in Axis
        BY <1>2, <1>7, AcceptedType DEF MotionCopiesLinear
    <2>2. active_cmd' \in [linear_x : Axis, angular_z : Axis,
                           speed_limit_pct : Percent, ttl_ms : UInt16]
        BY <1>7, <2>1 DEF MotionCopiesLinear, TypeOK
    <2>3. HandlersHaveCommands'
        BY <1>7, GotoKeepsCommands DEF MotionCopiesLinear
    <2>. QED BY <1>7, <2>2, <2>3 DEF MotionCopiesLinear, TypeOK, LocalType, DriverType
<1>8. ASSUME NEW here, here # "idle", NEW next, MotionCopiesRest(t, here, next)
      PROVE  ThreadsType'
    <2>1. /\ Accepted(msg[t].cmd) \in [linear_x : Axis, angular_z : Axis,
                                       speed_limit_pct : Percent, ttl_ms : UInt16]
          /\ msg[t].cmd.ttl_ms \in UInt16
        BY <1>2, <1>8, AcceptedType DEF MotionCopiesRest, CommandType
    <2>2. active_cmd' \in [linear_x : Axis, angular_z : Axis,
                           speed_limit_pct : Percent, ttl_ms : UInt16]
        BY <1>8, <2>1 DEF MotionCopiesRest, TypeOK
    <2>3. HandlersHaveCommands'
        BY <1>8, GotoKeepsCommands DEF MotionCopiesRest
    <2>. QED BY <1>8, <2>2, <2>3 DEF MotionCopiesRest, TypeOK, LocalType, DriverType
<1>9. CASE MotionDefaultsTtl(t)
    <2>1. OrDefault(active_cmd.ttl_ms, DefaultTtl) \in UInt16
        BY ConfigIsUsable DEF TypeOK, OrDefault
    <2>2. active_cmd' \in [linear_x : Axis, angular_z : Axis,
                           speed_limit_pct : Percent, ttl_ms : UInt16]
        BY <1>9, <2>1 DEF MotionDefaultsTtl, TypeOK
    <2>3. HandlersHaveCommands'
        BY <1>9, GotoKeepsCommands DEF MotionDefaultsTtl
    <2>. QED BY <1>9, <2>2, <2>3 DEF MotionDefaultsTtl, TypeOK, LocalType, DriverType
<1>10. CASE MotionLimits(t)
    <2>1. LimitOf(active_cmd) \in 0..SAFE_MAX_SPEED_LIMIT_PCT
        BY LimitOfType DEF TypeOK
    <2>2. HandlersHaveCommands'
        BY <1>10, GotoKeepsCommands DEF MotionLimits
    <2>. QED BY <1>10, <2>1, <2>2 DEF MotionLimits, TypeOK, LocalType, DriverType
<1>11. CASE MotionStamps(t)
    <2>1. msg[t].stamp \in 0..TimeMod-1
        BY DEF HandlersHaveCommands
    <2>2. HandlersHaveCommands'
        BY <1>11, GotoKeepsCommands DEF MotionStamps
    <2>. QED BY <1>11, <2>1, <2>2 DEF MotionStamps, TypeOK, LocalType, DriverType
<1>12. CASE MotionActivates(t)
    <2>1. uptime \in 0..uptime
        BY DEF TypeOK
    <2>2. HandlersHaveCommands'
        BY <1>12, FinishKeepsCommands DEF MotionActivates
    <2>. QED BY <1>12, <2>1, <2>2 DEF MotionActivates, TypeOK, LocalType, DriverType
<1>13. ASSUME NEW s \in Side, NEW here, here # "idle", NEW next, ZeroOutput(t, s, here, next)
       PROVE  ThreadsType'
    <2>1. HandlersHaveCommands'
        BY <1>13, FinishKeepsCommands, GotoKeepsCommands DEF ZeroOutput, GotoOrFinish
    <2>2. current_pct' \in Output
        BY <1>13 DEF ZeroOutput, TypeOK, Output
    <2>. QED BY <1>13, <2>1, <2>2 DEF ZeroOutput, TypeOK, LocalType, DriverType, Output
<1>14. "left" \in Side /\ "right" \in Side
    BY DEF Side
<1>. QED BY <1>1, <1>3, <1>4, <1>5, <1>6, <1>7, <1>8, <1>9, <1>10, <1>11, <1>12, <1>13,
            <1>14
         DEF SubmitterStep

\* Every step keeps all types.
LEMMA ThreadsTypeNext == ThreadsType /\ [ThreadsNext]_allVars => ThreadsType'
<1>. SUFFICES ASSUME ThreadsType, [ThreadsNext]_allVars PROVE ThreadsType'
    OBVIOUS
<1>1. ASSUME NEW d \in UptimeSteps, Pass(d) PROVE ThreadsType'
    <2>1. /\ uptime' \in 0..MaxUptime
          /\ accepted_at \in 0..uptime' /\ updated_at \in 0..uptime'
        BY <1>1, ClockAssumption DEF Pass, ThreadsType, TypeOK
    <2>. QED BY <1>1, <2>1
             DEF Pass, ThreadsType, TypeOK, LocalType, HandlersHaveCommands, DriverType,
                 commandVars, outputVars, updateVars, flags, threadVars
<1>2. CASE UNCHANGED allVars
    BY <1>2 DEF allVars, vars, ThreadsType, TypeOK, LocalType, HandlersHaveCommands,
                DriverType, commandVars, outputVars, updateVars, threadVars
<1>. QED BY <1>1, <1>2, MotorTypeNext, SubmitterTypeNext DEF ThreadsNext

\* However the threads interleave, every location of the shared structure, of the
\* update in progress and of the driver keeps its type.
THEOREM ThreadsTypeCorrect == ThreadsSpec => []ThreadsTypeOK
BY ThreadsTypeInit, ThreadsTypeNext, ThreadsTypeImplies, PTL DEF ThreadsSpec
-----------------------------------------------------------------------------
(* The safety invariants under every interleaving *)

\* The safe limit also holds of what an update has read and not yet written, and of
\* what it is about to apply.
EveryOutputWithinLimit ==
    /\ Within(current_pct) /\ Within(target_pct)
    /\ Within(local.mixed) /\ Within(local.slewed) /\ Within(local.out)
    /\ \A m \in Motor : Abs(drive[m]) <= SAFE_MAX_SPEED_LIMIT_PCT

LEMMA ZeroWithin == /\ Within(AtZero) /\ Within(NoLocals.mixed)
                    /\ Within(NoLocals.slewed) /\ Within(NoLocals.out)
                    /\ Abs(0) <= SAFE_MAX_SPEED_LIMIT_PCT
BY SafeMaxAssumption DEF Within, AtZero, NoLocals, Abs, Percent

\* The other threads write nothing but zero to an output or its target.
LEMMA OthersOnlyZero ==
    ASSUME ThreadsType, [ThreadsNext]_allVars, ~MotorStep
    PROVE  /\ \A s \in Side : /\ current_pct'[s] \in {current_pct[s], 0}
                             /\ target_pct'[s] \in {target_pct[s], 0}
           /\ UNCHANGED <<local, drive>>
<1>. USE DEF vars, outputVars, motorSide, driverSide
<1>1. ASSUME NEW t, NEW s \in Side, NEW here, NEW next,
             ZeroTarget(t, s, here, next) \/ ZeroOutput(t, s, here, next)
      PROVE  /\ \A side \in Side : /\ current_pct'[side] \in {current_pct[side], 0}
                                  /\ target_pct'[side] \in {target_pct[side], 0}
             /\ UNCHANGED <<local, drive>>
    <2>1. CASE ZeroTarget(t, s, here, next)
        BY <1>1, <2>1 DEF ZeroTarget, ThreadsType, TypeOK
    <2>2. CASE ZeroOutput(t, s, here, next)
        BY <1>1, <2>2 DEF ZeroOutput, ThreadsType, TypeOK
    <2>. QED BY <1>1, <2>1, <2>2
<1>2. ASSUME UNCHANGED <<outputVars, local, drive>>
      PROVE  /\ \A s \in Side : /\ current_pct'[s] \in {current_pct[s], 0}
                               /\ target_pct'[s] \in {target_pct[s], 0}
             /\ UNCHANGED <<local, drive>>
    BY <1>2
<1>3. \/ UNCHANGED <<outputVars, local, drive>>
      \/ \E t \in Submitters : \/ ZeroTarget(t, "left", "zero_left", "zero_right")
                              \/ ZeroTarget(t, "right", "zero_right", AfterTargets(t))
                              \/ ZeroOutput(t, "left", "output_left", "output_right")
                              \/ ZeroOutput(t, "right", "output_right", "done")
    BY DEF ThreadsNext, SubmitterStep, Submit, HandleSetSpeed, StopReleasesLatch,
           EStopLatches, Deactivate, MotionChecksLatch, MotionCopiesLinear,
           MotionCopiesRest, MotionDefaultsTtl, MotionLimits, MotionStamps,
           MotionActivates, Pass, allVars, threadVars
<1>4. "left" \in Side /\ "right" \in Side
    BY DEF Side
<1>. QED BY <1>1, <1>2, <1>3, <1>4

LEMMA MotorKeepsLimit ==
    ASSUME ThreadsType, EveryOutputWithinLimit, MotorStep
    PROVE  EveryOutputWithinLimit'
<1>. USE ZeroWithin
<1>. USE DEF EveryOutputWithinLimit, vars, clockAndCommand, commandVars, outputVars,
             motorSide, driverSide
<1>1. CASE \/ Wake \/ CheckLatch \/ CheckActive \/ ReadAge \/ CheckTtl \/ Lapse
           \/ ReadLinear \/ ReadAngular
    <2>1. \/ local' = local
          \/ /\ local'.mixed \in {local.mixed, NoLocals.mixed}
             /\ local'.slewed \in {local.slewed, NoLocals.slewed}
             /\ local'.out \in {local.out, NoLocals.out}
        BY <1>1
        DEF ThreadsType, LocalType, NoLocals, Wake, CheckLatch, CheckActive, ReadAge,
                    CheckTtl, Lapse, ReadLinear, ReadAngular
    <2>2. /\ current_pct' \in {current_pct, AtZero} /\ target_pct' \in {target_pct, AtZero}
          /\ UNCHANGED drive
        BY <1>1 DEF Wake, CheckLatch, CheckActive, ReadAge, CheckTtl, Lapse, ReadLinear,
                    ReadAngular
    <2>. QED BY <2>1, <2>2
<1>2. CASE MixTargets
    <2>. DEFINE t == DifferentialTargets(local.linear, local.angular,
                                         LimitSpeed(current_speed_limit_pct))
    <2>1. Within(t)
        BY MixedType DEF ThreadsType, Within
    <2>2. local' = [local EXCEPT !.mixed = t]
        BY <1>2 DEF MixTargets
    <2>. HIDE DEF t
    <2>3. /\ local'.mixed = t
          /\ UNCHANGED <<local.slewed, local.out>>
        BY <2>2 DEF ThreadsType, LocalType
    <2>. QED BY <1>2, <2>1, <2>3 DEF MixTargets
<1>3. ASSUME NEW s \in Side, NEW here, NEW next, RampRead(s, here, next)
      PROVE  EveryOutputWithinLimit'
    <2>. DEFINE r == SlewLimitMotorPct(current_pct[s], target_pct[s],
                                       StepUp(local.dt), StepDown(local.dt))
    <2>1. /\ r \in -100..100
          /\ Abs(r) <= Abs(current_pct[s]) \/ Abs(r) <= Abs(target_pct[s])
        BY <1>3, RampReadType DEF ThreadsType
    <2>2. local' = [local EXCEPT !.slewed[s] = r]
        BY <1>3 DEF RampRead
    <2>3. current_pct[s] \in -100..100 /\ target_pct[s] \in -100..100
        BY <1>3 DEF ThreadsType, TypeOK
    <2>. HIDE DEF r
    <2>4. Abs(r) <= SAFE_MAX_SPEED_LIMIT_PCT
        BY <1>3, <2>1, <2>3, SafeMaxAssumption DEF Within, Abs, Percent
    <2>5. Within(local'.slewed) /\ UNCHANGED <<local.mixed, local.out>>
        BY <1>3, <2>2, <2>4 DEF ThreadsType, LocalType, Output, Within
    <2>. QED BY <1>3, <2>5 DEF RampRead
<1>4. ASSUME NEW s \in Side, NEW here, NEW next, RampWrite(s, here, next)
      PROVE  EveryOutputWithinLimit'
    <2>1. Within(current_pct')
        BY <1>4 DEF RampWrite, Within, ThreadsType, TypeOK
    <2>. QED BY <1>4, <2>1 DEF RampWrite
<1>5. CASE ReadOutput
    <2>1. PICK held \in SUBSET Side :
             local' = [local EXCEPT !.slewed = AtZero,
                          !.out = [s \in Side |-> IF s \in held THEN local.slewed[s]
                                                  ELSE current_pct[s]]]
        BY <1>5 DEF ReadOutput
    <2>2. /\ local'.slewed = AtZero /\ local'.mixed = local.mixed
          /\ \A s \in Side : local'.out[s] \in {local.slewed[s], current_pct[s]}
        BY <2>1 DEF ThreadsType, LocalType
    <2>3. Within(local'.out)
        BY <2>2 DEF Within
    <2>. QED BY <1>5, <2>2, <2>3 DEF ReadOutput
<1>6. CASE Apply
    <2>1. \A m \in Motor : \/ drive'[m] = drive[m]
                           \/ drive'[m] = 0
                           \/ \E s \in Side : drive'[m] = local.out[s]
        <3>1. CASE UNCHANGED driverSide
            BY <3>1
        <3>2. CASE DriverSucceeds
            BY <3>2, SideOfMotor DEF DriverSucceeds
        <3>3. CASE DriverFails
            BY <3>3, SideOfMotor DEF DriverFails, DrivesPartly
        <3>. QED BY <1>6, <3>1, <3>2, <3>3 DEF Apply
    <2>2. \A m \in Motor : Abs(drive'[m]) <= SAFE_MAX_SPEED_LIMIT_PCT
        BY <2>1 DEF Within
    <2>. QED BY <1>6, <2>2 DEF Apply
<1>7. "left" \in Side /\ "right" \in Side
    BY DEF Side
<1>8. ASSUME NEW s \in Side, NEW here, NEW next, WriteTarget(s, here, next)
      PROVE  EveryOutputWithinLimit'
    <2>1. Within(target_pct')
        BY <1>8 DEF WriteTarget, Within, ThreadsType, TypeOK
    <2>. QED BY <1>8, <2>1 DEF WriteTarget
<1>. QED BY <1>1, <1>2, <1>3, <1>4, <1>5, <1>6, <1>7, <1>8 DEF MotorStep

\* No interleaving takes a request, an output or a motor beyond the safe maximum.
THEOREM MotorsLimitCorrect == ThreadsSpec => []MotorsWithinSafeLimit
<1>1. ThreadsInit => EveryOutputWithinLimit
    BY ZeroWithin DEF ThreadsInit, Init, EveryOutputWithinLimit
<1>2. ThreadsType /\ EveryOutputWithinLimit /\ [ThreadsNext]_allVars
        => EveryOutputWithinLimit'
    <2>. SUFFICES ASSUME ThreadsType, EveryOutputWithinLimit, [ThreadsNext]_allVars
                  PROVE  EveryOutputWithinLimit'
        OBVIOUS
    <2>1. CASE ~MotorStep
        BY <2>1, OthersOnlyZero, ZeroWithin DEF EveryOutputWithinLimit, Within
    <2>. QED BY <2>1, MotorKeepsLimit
<1>3. EveryOutputWithinLimit => MotorsWithinSafeLimit
    BY DEF EveryOutputWithinLimit, Within, MotorsWithinSafeLimit, OutputWithinSafeLimit
<1>. QED BY <1>1, <1>2, <1>3, ThreadsTypeInit, ThreadsTypeNext, PTL DEF ThreadsSpec

\* Between the ramp's reading of a side and its writing, the output may become zero
\* but never turns around: what is about to be written is no reversal.
RampIsNoReversal ==
    /\ pc["motor"] = "write_left"
         => ~DifferentSignNonzero(current_pct["left"], local.slewed["left"])
    /\ pc["motor"] = "write_right"
         => ~DifferentSignNonzero(current_pct["right"], local.slewed["right"])

LEMMA ZeroIsNoReversal ==
    ASSUME NEW x \in Int
    PROVE  ~DifferentSignNonzero(0, x) /\ ~DifferentSignNonzero(x, 0)
           /\ ~DifferentSignNonzero(x, x)
BY DEF DifferentSignNonzero

LEMMA RampNext ==
    ThreadsType /\ RampIsNoReversal /\ [ThreadsNext]_allVars => RampIsNoReversal'
<1>. SUFFICES ASSUME ThreadsType, RampIsNoReversal, [ThreadsNext]_allVars
              PROVE  RampIsNoReversal'
    OBVIOUS
<1>0. /\ "left" \in Side /\ "right" \in Side
      /\ \A s \in Side : current_pct[s] \in Int /\ local.slewed[s] \in Int
    BY DEF Side, ThreadsType, TypeOK, LocalType, Output
<1>1. CASE MotorStep
    <2>1. ASSUME NEW s \in Side, NEW here, NEW next, RampRead(s, here, next)
          PROVE  ~DifferentSignNonzero(current_pct'[s], local'.slewed[s])
        <3>. DEFINE r == SlewLimitMotorPct(current_pct[s], target_pct[s],
                                           StepUp(local.dt), StepDown(local.dt))
        <3>1. ~DifferentSignNonzero(current_pct[s], r)
            BY <2>1, RampReadType DEF ThreadsType
        <3>2. local' = [local EXCEPT !.slewed[s] = r] /\ current_pct' = current_pct
            BY <2>1 DEF RampRead, vars, outputVars
        <3>. HIDE DEF r
        <3>3. local'.slewed[s] = r
            BY <2>1, <3>2 DEF ThreadsType, LocalType, Output
        <3>. QED BY <3>1, <3>2, <3>3
    <2>2. pc'["motor"] = "write_left" => RampRead("left", "read_left", "write_left")
        BY <1>1 DEF MotorStep, Goto, ThreadsType, HandlersHaveCommands, Thread, Wake,
                    CheckLatch, CheckActive, ReadAge, CheckTtl, Lapse, ReadLinear,
                    ReadAngular, MixTargets, WriteTarget, RampRead, RampWrite,
                    ReadOutput, Apply
    <2>3. pc'["motor"] = "write_right" => RampRead("right", "read_right", "write_right")
        BY <1>1 DEF MotorStep, Goto, ThreadsType, HandlersHaveCommands, Thread, Wake,
                    CheckLatch, CheckActive, ReadAge, CheckTtl, Lapse, ReadLinear,
                    ReadAngular, MixTargets, WriteTarget, RampRead, RampWrite,
                    ReadOutput, Apply
    <2>. QED BY <1>0, <2>1, <2>2, <2>3 DEF RampIsNoReversal
<1>2. CASE ~MotorStep
    <2>1. (\A s \in Side : current_pct'[s] \in {current_pct[s], 0}) /\ UNCHANGED local
        BY <1>2, OthersOnlyZero
    <2>2. pc'["motor"] = pc["motor"]
        BY <1>2, ThreadAssumption
        DEF ThreadsNext, SubmitterStep, Submit, HandleSetSpeed, StopReleasesLatch,
            EStopLatches, Deactivate, ZeroTarget, ZeroOutput, GotoOrFinish,
            MotionChecksLatch, MotionCopiesLinear, MotionCopiesRest,
            MotionDefaultsTtl, MotionLimits, MotionStamps, MotionActivates, Pass,
            allVars, threadVars, Finish, Goto, ThreadsType, HandlersHaveCommands,
            Thread
    <2>. QED BY <1>0, <2>1, <2>2, ZeroIsNoReversal DEF RampIsNoReversal
<1>. QED BY <1>1, <1>2

\* No step of any thread writes the manager's output from one direction straight
\* to the other, although the ramp's reading and its writing are steps apart.
THEOREM RaceReversalCorrect == ThreadsSpec => NoReversalUnderRaces
<1>1. ThreadsInit => RampIsNoReversal
    BY ThreadAssumption DEF ThreadsInit, RampIsNoReversal, Thread
<1>2. ThreadsType /\ RampIsNoReversal /\ [ThreadsNext]_allVars
        => [\A s \in Side : ~DifferentSignNonzero(current_pct[s], current_pct'[s])]_allVars
    <2>. SUFFICES ASSUME ThreadsType, RampIsNoReversal, ThreadsNext, NEW s \in Side
                  PROVE  ~DifferentSignNonzero(current_pct[s], current_pct'[s])
        OBVIOUS
    <2>0. current_pct[s] \in Int
        BY DEF ThreadsType, TypeOK
    <2>1. ASSUME RampWrite("left", "write_left", "read_right")
          PROVE  ~DifferentSignNonzero(current_pct[s], current_pct'[s])
        <3>1. CASE s = "left"
            BY <2>1, <3>1 DEF RampWrite, At, RampIsNoReversal, ThreadsType, TypeOK
        <3>2. CASE s # "left"
            BY <2>0, <2>1, <3>2, ZeroIsNoReversal DEF RampWrite, ThreadsType, TypeOK
        <3>. QED BY <3>1, <3>2
    <2>2. ASSUME RampWrite("right", "write_right", "output")
          PROVE  ~DifferentSignNonzero(current_pct[s], current_pct'[s])
        <3>1. CASE s = "right"
            BY <2>2, <3>1 DEF RampWrite, At, RampIsNoReversal, ThreadsType, TypeOK
        <3>2. CASE s # "right"
            BY <2>0, <2>2, <3>2, ZeroIsNoReversal DEF RampWrite, ThreadsType, TypeOK
        <3>. QED BY <3>1, <3>2
    <2>3. \/ current_pct'[s] \in {current_pct[s], 0}
          \/ RampWrite("left", "write_left", "read_right")
          \/ RampWrite("right", "write_right", "output")
        <3>1. CASE MotorStep
            BY <3>1
            DEF MotorStep, Wake, CheckLatch, CheckActive, ReadAge, CheckTtl, Lapse,
                ReadLinear, ReadAngular, MixTargets, WriteTarget, RampRead, ReadOutput,
                Apply, vars, outputVars, clockAndCommand, AtZero
        <3>. QED BY <3>1, OthersOnlyZero
    <2>. QED BY <2>0, <2>1, <2>2, <2>3, ZeroIsNoReversal
<1>. QED BY <1>1, <1>2, ThreadsTypeInit, ThreadsTypeNext, RampNext, PTL
         DEF ThreadsSpec, NoReversalUnderRaces
-----------------------------------------------------------------------------
(* An update takes a command for lapsed only when it deserves it *)

\* A motion command is on its way from the latch to its activation.
InMotion(t) ==
    pc[t] \in {"copy", "copy_rest", "copy_linear", "ttl", "limit", "stamp", "activate"}

\* No motion command is on its way and none was accepted since the update began.
Settled == accepted_at < updated_at /\ \A t \in Submitters : ~InMotion(t)

\* Until the counter wraps: a settled update works with the command it would have
\* found when it began, whose stamp lies behind its reading of the clock, because
\* every handler that touches the command goes on to activate it.
SettledUpdate ==
    uptime < TimeMod =>
        /\ \A t \in Submitters : msg[t].stamp <= uptime
        /\ last_command_time_ms <= uptime
        /\ (\A t \in Submitters : ~InMotion(t)) => last_command_time_ms <= accepted_at
        /\ Busy("motor") => local.now = updated_at
        /\ Settled /\ pc["motor"] = "ttl"
             => local.elapsed = local.now - last_command_time_ms
        /\ Settled /\ pc["motor"] = "lapse" /\ has_active_motion_cmd
             => last_command_time_ms + active_cmd.ttl_ms < local.now

\* A number below the modulus is its own remainder.
LEMMA SmallModulo ==
    ASSUME NEW x \in 0..TimeMod-1
    PROVE  x % TimeMod = x
<1>1. x \in Int /\ TimeMod \in Nat \ {0}
    BY ClockAssumption
<1>2. x \div TimeMod \in Int /\ x % TimeMod \in 0..TimeMod-1
    BY <1>1, DivMod
<1>3. TimeMod * (x \div TimeMod) + (x % TimeMod) = x
    BY <1>1, DivMod
<1>. QED BY <1>1, <1>2, <1>3, UniqueRemainder

\* What a submitting thread leaves alone: the motor thread's own state and clock.
LEMMA SubmitterFrame ==
    ASSUME ThreadsType, NEW t \in Submitters, SubmitterStep(t)
    PROVE  /\ UNCHANGED <<motorSide, updateVars, uptime>>
           /\ \A u \in Thread \ {t} : pc'[u] = pc[u]
           /\ pc'["motor"] = pc["motor"]
           /\ \A u \in Submitters \ {t} : msg'[u] = msg[u]
<1>. USE DEF Finish, Goto, vars, clockAndCommand, updateVars, motorSide, driverSide,
    submitSide
<1>1. UNCHANGED <<motorSide, updateVars, uptime>>
    BY DEF SubmitterStep, Submit, HandleSetSpeed, StopReleasesLatch, EStopLatches,
           Deactivate, ZeroTarget, ZeroOutput, GotoOrFinish, MotionChecksLatch,
           MotionCopiesLinear, MotionCopiesRest, MotionDefaultsTtl, MotionLimits,
           MotionStamps, MotionActivates
<1>2. \E label : pc' = [pc EXCEPT ![t] = label]
    BY DEF SubmitterStep, Submit, HandleSetSpeed, StopReleasesLatch, EStopLatches,
           Deactivate, ZeroTarget, ZeroOutput, GotoOrFinish, MotionChecksLatch,
           MotionCopiesLinear, MotionCopiesRest, MotionDefaultsTtl, MotionLimits,
           MotionStamps, MotionActivates
<1>3. msg' = msg \/ \E m : msg' = [msg EXCEPT ![t] = m]
    BY DEF SubmitterStep, Submit, HandleSetSpeed, StopReleasesLatch, EStopLatches,
           Deactivate, ZeroTarget, ZeroOutput, GotoOrFinish, MotionChecksLatch,
           MotionCopiesLinear, MotionCopiesRest, MotionDefaultsTtl, MotionLimits,
           MotionStamps, MotionActivates
<1>4. DOMAIN msg = Submitters /\ DOMAIN pc = Thread
    BY DEF ThreadsType, HandlersHaveCommands
<1>. QED BY <1>1, <1>2, <1>3, <1>4, ThreadAssumption DEF Thread

\* What the motor thread leaves alone: the submitting threads and their command.
LEMMA MotorFrame ==
    ASSUME ThreadsType, MotorStep
    PROVE  /\ UNCHANGED <<commandVars, has_active_motion_cmd, emergency_stop_latched,
                          uptime, submitSide>>
           /\ \A t \in Submitters : pc'[t] = pc[t]
<1>. USE DEF MotorStep, Wake, CheckLatch, CheckActive, ReadAge, CheckTtl, Lapse,
             ReadLinear, ReadAngular, MixTargets, WriteTarget, RampRead, RampWrite,
             ReadOutput, Apply
<1>1. UNCHANGED <<commandVars, has_active_motion_cmd, emergency_stop_latched,
                  uptime, submitSide>>
    BY DEF vars, clockAndCommand, flags, submitSide
<1>2. \E label : pc' = [pc EXCEPT !["motor"] = label]
    BY DEF Goto
<1>. QED BY <1>1, <1>2, ThreadAssumption DEF ThreadsType, HandlersHaveCommands, Thread

LEMMA SettledInit == ThreadsInit => SettledUpdate
<1>. SUFFICES ASSUME ThreadsInit PROVE SettledUpdate
    OBVIOUS
<1>1. pc["motor"] = "asleep" /\ \A t \in Submitters : pc[t] = "idle"
    BY ThreadAssumption DEF ThreadsInit, Thread
<1>. QED BY <1>1 DEF ThreadsInit, Init, SettledUpdate, NoMsg, Busy

LEMMA SettledMotor ==
    ASSUME ThreadsType, SettledUpdate, MotorStep
    PROVE  SettledUpdate'
<1>. SUFFICES ASSUME uptime < TimeMod PROVE SettledUpdate'
    BY MotorFrame DEF SettledUpdate
<1>1. /\ UNCHANGED <<commandVars, has_active_motion_cmd, uptime, msg>>
      /\ \A t \in Submitters : InMotion(t)' <=> InMotion(t)
    BY MotorFrame DEF InMotion, submitSide
<1>2. /\ \A t \in Submitters : msg'[t].stamp <= uptime'
      /\ last_command_time_ms' <= uptime'
      /\ (\A t \in Submitters : ~InMotion(t)') => last_command_time_ms' <= accepted_at'
    BY <1>1 DEF SettledUpdate, commandVars
<1>3. DOMAIN pc = Thread /\ "motor" \in Thread
    BY DEF ThreadsType, HandlersHaveCommands, Thread
<1>4. uptime \in 0..TimeMod-1
    BY ClockAssumption DEF ThreadsType, TypeOK
<1>5. CASE Wake
    <2>1. local'.now = updated_at' /\ pc'["motor"] = "latch"
        BY <1>3, <1>4, <1>5, SmallModulo
        DEF Wake, UpdateClock, NowMs, Goto, NoLocals
    <2>. QED BY <1>2, <2>1 DEF SettledUpdate
<1>6. ASSUME ~Wake PROVE /\ UNCHANGED updated_at
                         /\ (Settled' <=> Settled)
    BY <1>1, <1>6 DEF MotorStep, CheckLatch, CheckActive, ReadAge, CheckTtl, Lapse,
                      ReadLinear, ReadAngular, MixTargets, WriteTarget, RampRead,
                      RampWrite, ReadOutput, Apply, vars, clockAndCommand, updateVars,
                      commandVars, Settled
<1>7. CASE CheckActive
    <2>1. /\ pc'["motor"] \notin {"asleep", "ttl"} /\ UNCHANGED local
          /\ pc'["motor"] = "lapse" => ~has_active_motion_cmd'
          /\ pc["motor"] = "active"
        BY <1>1, <1>3, <1>7 DEF CheckActive, At, Goto, motorSide, driverSide
    <2>2. Busy("motor") /\ ~Wake
        BY <2>1 DEF Busy, Wake, At
    <2>. QED BY <1>2, <1>6, <2>1, <2>2 DEF SettledUpdate
<1>8. CASE ReadAge
    <2>1. /\ pc'["motor"] = "ttl" /\ pc["motor"] = "age"
          /\ local'.now = local.now
          /\ local'.elapsed = (local.now - last_command_time_ms) % TimeMod
        BY <1>3, <1>8 DEF ReadAge, At, Goto, ThreadsType, LocalType
    <2>2. Busy("motor") /\ ~Wake
        BY <2>1 DEF Busy, Wake, At
    <2>3. ASSUME Settled
          PROVE  (local.now - last_command_time_ms) % TimeMod = local.now - last_command_time_ms
        <3>1. last_command_time_ms <= accepted_at /\ local.now = updated_at
            BY <1>4, <2>2, <2>3 DEF SettledUpdate, Settled
        <3>2. accepted_at < updated_at /\ updated_at <= uptime
            BY <2>3 DEF Settled, ThreadsType, TypeOK
        <3>3. last_command_time_ms \in Nat /\ accepted_at \in Nat /\ updated_at \in Nat
            BY DEF ThreadsType, TypeOK
        <3>4. local.now - last_command_time_ms \in 0..TimeMod-1
            BY <1>4, <3>1, <3>2, <3>3, ClockAssumption
        <3>. QED BY <3>4, SmallModulo
    <2>. QED BY <1>1, <1>2, <1>6, <2>1, <2>2, <2>3 DEF SettledUpdate, commandVars
<1>9. CASE CheckTtl
    <2>1. /\ pc["motor"] = "ttl" /\ UNCHANGED local
          /\ pc'["motor"] # "ttl"
          /\ pc'["motor"] = "lapse" => local.elapsed > active_cmd.ttl_ms
        BY <1>3, <1>9 DEF CheckTtl, At, Goto, motorSide, driverSide
    <2>2. Busy("motor") /\ ~Wake
        BY <2>1 DEF Busy, Wake, At
    <2>3. Settled /\ pc'["motor"] = "lapse"
            => last_command_time_ms + active_cmd.ttl_ms < local.now
        BY <2>1 DEF SettledUpdate, ThreadsType, TypeOK, LocalType, UInt16
    <2>. QED BY <1>1, <1>2, <1>6, <2>1, <2>2, <2>3 DEF SettledUpdate, commandVars
<1>10. CASE ~Wake /\ ~CheckActive /\ ~ReadAge /\ ~CheckTtl
    <2>1. /\ pc'["motor"] \notin {"ttl", "lapse"}
          /\ Busy("motor")
          /\ Busy("motor")' => local'.now = local.now
        BY <1>3, <1>10
        DEF MotorStep, CheckLatch, Lapse, ReadLinear, ReadAngular, MixTargets,
            WriteTarget, RampRead, RampWrite, ReadOutput, Apply, At, Goto, Busy,
            motorSide, driverSide, vars, ThreadsType, LocalType
    <2>. QED BY <1>2, <1>6, <1>10, <2>1 DEF SettledUpdate
<1>. QED BY <1>5, <1>7, <1>8, <1>9, <1>10

\* What each step of a handler does to the command the update judges.
LEMMA SubmitterEffect ==
    ASSUME ThreadsType, NEW t \in Submitters, SubmitterStep(t)
    PROVE  \/ /\ UNCHANGED <<last_command_time_ms, accepted_at, active_cmd>>
              /\ has_active_motion_cmd' => has_active_motion_cmd
              /\ ~InMotion(t)
           \/ /\ InMotion(t) /\ InMotion(t)' /\ UNCHANGED accepted_at
              /\ last_command_time_ms' \in {last_command_time_ms, msg[t].stamp}
           \/ /\ InMotion(t) /\ accepted_at' = uptime
              /\ UNCHANGED last_command_time_ms
<1>. USE DEF Goto, InMotion, vars, clockAndCommand, commandVars, At
<1>1. t \in DOMAIN pc
    BY DEF ThreadsType, HandlersHaveCommands, Thread
<1>2. CASE \/ \E cmd \in CommandsOf[t] : Submit(t, cmd)
           \/ HandleSetSpeed(t) \/ StopReleasesLatch(t) \/ EStopLatches(t)
           \/ Deactivate(t) \/ MotionChecksLatch(t)
           \/ ZeroTarget(t, "left", "zero_left", "zero_right")
           \/ ZeroTarget(t, "right", "zero_right", AfterTargets(t))
           \/ ZeroOutput(t, "left", "output_left", "output_right")
           \/ ZeroOutput(t, "right", "output_right", "done")
    BY <1>2 DEF Submit, HandleSetSpeed, StopReleasesLatch, EStopLatches, Deactivate,
        ZeroTarget, ZeroOutput, GotoOrFinish, MotionChecksLatch, flags
<1>3. ASSUME NEW here \in {"copy", "copy_linear"}, NEW next \in {"copy_rest", "ttl"},
             MotionCopiesLinear(t, here, next)
      PROVE  InMotion(t) /\ InMotion(t)' /\ UNCHANGED <<accepted_at, last_command_time_ms>>
    BY <1>1, <1>3 DEF MotionCopiesLinear
<1>4. ASSUME NEW here \in {"copy", "copy_rest"}, NEW next \in {"copy_linear", "ttl"},
             MotionCopiesRest(t, here, next)
      PROVE  InMotion(t) /\ InMotion(t)' /\ UNCHANGED <<accepted_at, last_command_time_ms>>
    BY <1>1, <1>4 DEF MotionCopiesRest
<1>5. CASE MotionDefaultsTtl(t) \/ MotionLimits(t) \/ MotionStamps(t)
    BY <1>1, <1>5 DEF MotionDefaultsTtl, MotionLimits, MotionStamps
<1>6. CASE MotionActivates(t)
    BY <1>6 DEF MotionActivates
<1>. QED BY <1>2, <1>3, <1>4, <1>5, <1>6 DEF SubmitterStep

LEMMA SettledSubmitter ==
    ASSUME ThreadsType, SettledUpdate, NEW t \in Submitters, SubmitterStep(t)
    PROVE  SettledUpdate'
<1>0. /\ UNCHANGED <<motorSide, updated_at, uptime>>
      /\ \A u \in Submitters \ {t} : (InMotion(u)' <=> InMotion(u)) /\ msg'[u] = msg[u]
      /\ pc'["motor"] = pc["motor"]
    BY SubmitterFrame DEF InMotion, Thread, updateVars
<1>. SUFFICES ASSUME uptime < TimeMod PROVE SettledUpdate'
    BY <1>0 DEF SettledUpdate
<1>1. \A u \in Submitters : msg'[u].stamp <= uptime'
    <2>1. NowMs = uptime
        BY SmallModulo, ClockAssumption DEF NowMs, ThreadsType, TypeOK
    <2>2. msg'[t].stamp \in {msg[t].stamp, 0, uptime}
        BY <2>1 DEF SubmitterStep, Submit, HandleSetSpeed, StopReleasesLatch,
                    EStopLatches, Deactivate, ZeroTarget, ZeroOutput, GotoOrFinish,
                    MotionChecksLatch, MotionCopiesLinear, MotionCopiesRest,
                    MotionDefaultsTtl, MotionLimits, MotionStamps, MotionActivates,
                    Finish, NoMsg, vars, clockAndCommand, submitSide, ThreadsType,
                    HandlersHaveCommands
    <2>3. uptime >= 0 /\ \A u \in Submitters : msg[u].stamp <= uptime
        BY DEF SettledUpdate, ThreadsType, TypeOK
    <2>4. msg'[t].stamp <= uptime
        BY <2>2, <2>3 DEF ThreadsType, TypeOK
    <2>. QED BY <1>0, <2>3, <2>4
<1>2. last_command_time_ms' <= uptime'
    BY <1>0, SubmitterEffect DEF SettledUpdate
<1>3. (\A u \in Submitters : ~InMotion(u)') => last_command_time_ms' <= accepted_at'
    BY <1>0, SubmitterEffect DEF SettledUpdate
<1>4. Busy("motor")' => local'.now = updated_at'
    BY <1>0 DEF SettledUpdate, Busy, motorSide, driverSide
<1>5. ASSUME Settled'
      PROVE  /\ Settled /\ UNCHANGED <<last_command_time_ms, active_cmd>>
             /\ has_active_motion_cmd' => has_active_motion_cmd
    <2>1. accepted_at' # uptime
        BY <1>0, <1>5 DEF Settled, ThreadsType, TypeOK
    <2>2. ~InMotion(t)'
        BY <1>5 DEF Settled
    <2>3. /\ UNCHANGED <<last_command_time_ms, accepted_at, active_cmd>>
          /\ has_active_motion_cmd' => has_active_motion_cmd
          /\ ~InMotion(t)
        BY <2>1, <2>2, SubmitterEffect
    <2>. QED BY <1>0, <1>5, <2>3 DEF Settled
<1>. QED BY <1>0, <1>1, <1>2, <1>3, <1>4, <1>5 DEF SettledUpdate, motorSide, driverSide

LEMMA SettledNext ==
    ThreadsType /\ SettledUpdate /\ [ThreadsNext]_allVars => SettledUpdate'
<1>. SUFFICES ASSUME ThreadsType, SettledUpdate, [ThreadsNext]_allVars
              PROVE  SettledUpdate'
    OBVIOUS
<1>1. ASSUME NEW d \in UptimeSteps, Pass(d) PROVE SettledUpdate'
    <2>1. uptime <= uptime'
        BY <1>1, ClockAssumption DEF Pass, ThreadsType, TypeOK
    <2>2. UNCHANGED <<commandVars, updateVars, flags, pc, msg, local>>
        BY <1>1 DEF Pass, threadVars
    <2>3. uptime \in Int /\ uptime' \in Int /\ last_command_time_ms \in Int
          /\ \A t \in Submitters : msg[t].stamp \in Int
        BY <1>1, ClockAssumption
        DEF Pass, ThreadsType, TypeOK, HandlersHaveCommands
    <2>. QED BY <2>1, <2>2, <2>3, ClockAssumption
             DEF SettledUpdate, Settled, InMotion, Busy, commandVars, updateVars, flags
<1>2. CASE UNCHANGED allVars
    BY <1>2 DEF allVars, vars, threadVars, commandVars, updateVars, SettledUpdate,
                Settled, InMotion, Busy
<1>. QED BY <1>1, <1>2, SettledMotor, SettledSubmitter DEF ThreadsNext

\* Before the counter wraps, a command that is dropped while nobody submits is past
\* its time-to-live, or so new that the update under way had begun before it.
THEOREM LapseCorrect == ThreadsSpec => []LapseIsDeserved
<1>1. ThreadsType /\ SettledUpdate => LapseIsDeserved
    <2>. SUFFICES ASSUME ThreadsType, SettledUpdate, pc["motor"] = "lapse",
                         \A t \in Submitters : ~Busy(t), has_active_motion_cmd,
                         uptime < TimeMod, ~(accepted_at >= updated_at)
                  PROVE  last_command_time_ms + active_cmd.ttl_ms < local.now
        BY DEF LapseIsDeserved
    <2>1. \A t \in Submitters : ~InMotion(t)
        BY DEF Busy, InMotion
    <2>2. Settled
        BY <2>1 DEF Settled, ThreadsType, TypeOK
    <2>. QED BY <2>2 DEF SettledUpdate
<1>. QED BY <1>1, SettledInit, SettledNext, ThreadsTypeInit, ThreadsTypeNext, PTL
         DEF ThreadsSpec
-----------------------------------------------------------------------------
(* The emergency stop is at the motors in time *)

\* The motor thread's clock: an update is over within Jitter of its beginning, a
\* sleep within Jitter of its end.
ThreadOnTime ==
    /\ wake_at \in Nat /\ estop_at \in Nat
    /\ IF Busy("motor") THEN uptime <= updated_at + Jitter
       ELSE uptime <= wake_at + Jitter /\ wake_at <= uptime + LOOP_PERIOD_MS

\* An update that has passed the latch, and may still apply what it computed
\* before the emergency stop.
Stale ==
    \/ pc["motor"] \notin {"asleep", "idle", "latch", "apply"}
    \/ pc["motor"] = "apply" /\ local.out # AtZero

\* From the latching of the emergency stop on, with one retry per failed call.
Deadline(ms) == estop_at + ms + faults * RetryTime

\* As long as the driver has not stopped the motors, the thread is not later with it
\* than the update under way when the stop was latched, a sleep, and the failures
\* can make it; only that one update may still take it away again.
StopOnItsWay ==
    /\ pc["motor"] # "apply" => local.out = AtZero
    /\ AtRest /\ ~false_start => \A m \in Motor : drive[m] = 0
    /\ emergency_stop_latched =>
         /\ estop_at <= uptime
         /\ Stale => updated_at <= estop_at
         /\ ~AtRest =>
              IF Busy("motor") THEN updated_at <= Deadline(LOOP_PERIOD_MS + 2 * Jitter)
              ELSE wake_at <= Deadline(LOOP_PERIOD_MS + Jitter)

\* The bounds as numbers; a failed call moves every deadline by one retry.
LEMMA RetryArith ==
    ASSUME ThreadsType, ThreadOnTime
    PROVE  /\ Jitter \in Nat /\ faults \in Nat /\ RetryTime \in Nat
           /\ uptime \in Nat /\ updated_at \in Nat /\ updated_at <= uptime
           /\ faults * RetryTime \in Nat
           /\ (faults + 1) * RetryTime = faults * RetryTime + RetryTime
<1>1. Jitter \in Nat /\ faults \in Nat /\ RetryTime \in Nat
    BY BoundAssumption DEF RetryTime, LOOP_PERIOD_MS, ThreadsType, DriverType
<1>2. uptime \in Nat /\ updated_at \in Nat /\ updated_at <= uptime
    BY DEF ThreadsType, TypeOK
<1>. HIDE DEF RetryTime
<1>. QED BY <1>1, <1>2

LEMMA ThreadOnTimeNext ==
    ThreadsType /\ ThreadOnTime /\ [ThreadsNext]_allVars => ThreadOnTime'
<1>. SUFFICES ASSUME ThreadsType, ThreadOnTime, [ThreadsNext]_allVars
              PROVE  ThreadOnTime'
    OBVIOUS
<1>0. /\ Jitter \in Nat /\ uptime \in Nat /\ updated_at \in Nat /\ updated_at <= uptime
      /\ DOMAIN pc = Thread /\ "motor" \in Thread
    BY RetryArith DEF ThreadsType, HandlersHaveCommands, Thread
<1>1. CASE Wake
    BY <1>0, <1>1 DEF Wake, UpdateClock, Goto, Busy, ThreadOnTime, submitSide
<1>2. CASE Apply
    BY <1>0, <1>2 DEF Apply, Goto, Busy, ThreadOnTime, submitSide, LOOP_PERIOD_MS, vars
<1>3. CASE MotorStep /\ ~Wake /\ ~Apply
    <2>1. /\ Busy("motor") /\ Busy("motor")'
          /\ UNCHANGED <<wake_at, estop_at, uptime, updated_at>>
        BY <1>0, <1>3 DEF MotorStep, CheckLatch, CheckActive, ReadAge, CheckTtl,
                          Lapse, ReadLinear, ReadAngular, MixTargets, WriteTarget,
                          RampRead, RampWrite, ReadOutput, Goto, At, Busy, submitSide,
                          motorSide, driverSide, vars, clockAndCommand, updateVars
    <2>. QED BY <2>1 DEF ThreadOnTime
<1>4. ASSUME NEW t \in Submitters, SubmitterStep(t) PROVE ThreadOnTime'
    <2>1. UNCHANGED <<wake_at, uptime, updated_at>> /\ (Busy("motor")' <=> Busy("motor"))
        BY <1>4, SubmitterFrame DEF motorSide, driverSide, updateVars, Busy
    <2>2. estop_at' \in {estop_at, uptime}
        BY <1>4
        DEF SubmitterStep, Submit, HandleSetSpeed, StopReleasesLatch, EStopLatches,
            Deactivate, ZeroTarget, ZeroOutput, GotoOrFinish, MotionChecksLatch,
            MotionCopiesLinear, MotionCopiesRest, MotionDefaultsTtl, MotionLimits,
            MotionStamps, MotionActivates, submitSide
    <2>. QED BY <1>0, <2>1, <2>2 DEF ThreadOnTime
<1>5. ASSUME NEW d \in UptimeSteps, Pass(d) PROVE ThreadOnTime'
    <2>1. d \in Nat
        BY ClockAssumption
    <2>2. UNCHANGED <<wake_at, estop_at, updated_at, pc>> /\ uptime' = uptime + d
        BY <1>5 DEF Pass, threadVars, updateVars
    <2>. QED BY <1>0, <1>5, <2>1, <2>2 DEF Pass, ThreadOnTime, Busy, LOOP_PERIOD_MS
<1>6. CASE UNCHANGED allVars
    BY <1>6 DEF allVars, vars, threadVars, updateVars, ThreadOnTime, Busy
<1>. QED BY <1>1, <1>2, <1>3, <1>4, <1>5, <1>6 DEF ThreadsNext

LEMMA StopInit == ThreadsInit => ThreadOnTime /\ StopOnItsWay
<1>. SUFFICES ASSUME ThreadsInit PROVE ThreadOnTime /\ StopOnItsWay
    OBVIOUS
<1>1. pc["motor"] = "asleep"
    BY DEF ThreadsInit, Thread
<1>2. local.out = AtZero /\ ~AtRest
    BY DEF ThreadsInit, NoLocals, AtRest
<1>. QED BY <1>1, <1>2, BoundAssumption
         DEF ThreadsInit, Init, ThreadOnTime, StopOnItsWay, Busy, LOOP_PERIOD_MS

\* The end of an iteration: what the driver takes, and when the next one begins.
LEMMA StopApply ==
    ASSUME ThreadsType, ThreadOnTime, StopOnItsWay, Apply
    PROVE  StopOnItsWay'
<1>0. /\ pc["motor"] = "apply" /\ pc'["motor"] = "asleep"
      /\ local'.out = AtZero
      /\ UNCHANGED <<uptime, updated_at, emergency_stop_latched, estop_at>>
      /\ wake_at' = uptime + LOOP_PERIOD_MS
    BY DEF Apply, At, Goto, NoLocals, vars, updateVars, submitSide, ThreadsType,
           HandlersHaveCommands, Thread
<1>1. Busy("motor") /\ ~Busy("motor")' /\ ~Stale'
    BY <1>0 DEF Busy, Stale
<1>2. ~AtRest' => \/ local.out # AtZero /\ UNCHANGED faults
                  \/ ~AtRest /\ faults' = faults + 1
    <2>1. CASE UNCHANGED driverSide /\ ~NeedsApplying
        BY <2>1 DEF driverSide, NeedsApplying, AtRest, ThreadsType, DriverType
    <2>2. CASE DriverSucceeds
        BY <2>2 DEF DriverSucceeds, AtRest
    <2>3. CASE DriverFails
        BY <2>3 DEF DriverFails, AtRest
    <2>. QED BY <2>1, <2>2, <2>3 DEF Apply
<1>3. AtRest' /\ ~false_start' => \A m \in Motor : drive'[m] = 0
    <2>1. CASE UNCHANGED driverSide
        BY <2>1 DEF driverSide, AtRest, StopOnItsWay
    <2>2. CASE DriverSucceeds
        BY <2>2, SideOfMotor DEF DriverSucceeds, AtRest, AtZero
    <2>3. CASE DriverFails
        BY <2>3 DEF DriverFails, AtRest
    <2>. QED BY <2>1, <2>2, <2>3 DEF Apply
<1>4. ASSUME emergency_stop_latched, ~AtRest'
      PROVE  wake_at' <= Deadline(LOOP_PERIOD_MS + Jitter)'
    <2>. DEFINE r == faults * RetryTime
    <2>1. /\ r \in Nat /\ Jitter \in Nat /\ uptime \in Nat /\ updated_at \in Nat
          /\ estop_at \in Nat /\ uptime <= updated_at + Jitter
        BY <1>1, RetryArith DEF ThreadOnTime
    <2>2. CASE local.out # AtZero /\ UNCHANGED faults
        <3>1. updated_at <= estop_at
            BY <1>0, <1>4, <2>2 DEF StopOnItsWay, Stale
        <3>2. Deadline(LOOP_PERIOD_MS + Jitter)' = estop_at + (LOOP_PERIOD_MS + Jitter) + r
            BY <1>0, <2>2 DEF Deadline
        <3>. HIDE DEF r
        <3>. QED BY <1>0, <2>1, <3>1, <3>2 DEF LOOP_PERIOD_MS
    <2>3. CASE ~AtRest /\ faults' = faults + 1
        <3>1. updated_at <= estop_at + (LOOP_PERIOD_MS + 2 * Jitter) + r
            BY <1>1, <1>4, <2>3 DEF StopOnItsWay, Deadline, AtRest
        <3>2. Deadline(LOOP_PERIOD_MS + Jitter)'
                = estop_at + (LOOP_PERIOD_MS + Jitter) + (faults + 1) * RetryTime
            BY <1>0, <2>3 DEF Deadline
        <3>3. (faults + 1) * RetryTime = r + RetryTime
            BY RetryArith
        <3>. HIDE DEF r
        <3>4. Deadline(LOOP_PERIOD_MS + Jitter)'
                = estop_at + (LOOP_PERIOD_MS + Jitter) + (r + RetryTime)
            BY <3>2, <3>3
        <3>. QED BY <1>0, <2>1, <3>1, <3>4 DEF LOOP_PERIOD_MS, RetryTime
    <2>. QED BY <1>2, <1>4, <2>2, <2>3
<1>. QED BY <1>0, <1>1, <1>3, <1>4, RetryArith DEF StopOnItsWay, AtRest

LEMMA StopMotor ==
    ASSUME ThreadsType, ThreadOnTime, StopOnItsWay, MotorStep
    PROVE  StopOnItsWay'
<1>0. /\ DOMAIN pc = Thread /\ "motor" \in Thread
      /\ UNCHANGED <<uptime, emergency_stop_latched, estop_at>>
    BY MotorFrame DEF ThreadsType, HandlersHaveCommands, Thread, submitSide
<1>1. CASE Wake
    <2>1. /\ ~Busy("motor") /\ Busy("motor")' /\ pc'["motor"] = "latch"
          /\ local'.out = AtZero /\ updated_at' = uptime
          /\ UNCHANGED <<wake_at, last, drive, faults, false_start>>
        BY <1>0, <1>1 DEF Wake, At, Goto, Busy, NoLocals, UpdateClock, driverSide
    <2>2. ~Stale'
        BY <2>1 DEF Stale
    <2>3. ASSUME emergency_stop_latched, ~AtRest
          PROVE  updated_at' <= Deadline(LOOP_PERIOD_MS + 2 * Jitter)'
        <3>. DEFINE r == faults * RetryTime
        <3>1. wake_at <= estop_at + (LOOP_PERIOD_MS + Jitter) + r
            BY <2>1, <2>3 DEF StopOnItsWay, Deadline, AtRest
        <3>2. Deadline(LOOP_PERIOD_MS + 2 * Jitter)'
                = estop_at + (LOOP_PERIOD_MS + 2 * Jitter) + r
            BY <1>0, <2>1 DEF Deadline
        <3>3. /\ r \in Nat /\ Jitter \in Nat /\ uptime \in Nat
              /\ estop_at \in Nat /\ wake_at \in Nat /\ uptime <= wake_at + Jitter
            BY <2>1, RetryArith DEF ThreadOnTime
        <3>. HIDE DEF r
        <3>. QED BY <2>1, <3>1, <3>2, <3>3 DEF LOOP_PERIOD_MS
    <2>. QED BY <1>0, <2>1, <2>2, <2>3 DEF StopOnItsWay, AtRest
<1>2. CASE MotorStep /\ ~Wake /\ ~Apply
    <2>1. /\ Busy("motor") /\ Busy("motor")'
          /\ pc["motor"] # "apply"
          /\ UNCHANGED <<wake_at, last, drive, faults, false_start, updated_at>>
        BY <1>0, <1>2 DEF MotorStep, CheckLatch, CheckActive, ReadAge, CheckTtl,
                          Lapse, ReadLinear, ReadAngular, MixTargets, WriteTarget,
                          RampRead, RampWrite, ReadOutput, At, Goto, Busy, motorSide,
                          driverSide, vars, clockAndCommand, updateVars
    <2>2. pc'["motor"] # "apply" => local'.out = AtZero
        BY <1>0, <1>2, <2>1
        DEF MotorStep, CheckLatch, CheckActive, ReadAge, CheckTtl, Lapse, ReadLinear,
            ReadAngular, MixTargets, WriteTarget, RampRead, RampWrite, ReadOutput,
            Goto, motorSide, driverSide, StopOnItsWay, ThreadsType, LocalType
    <2>3. emergency_stop_latched /\ Stale' => Stale
        <3>1. CASE CheckLatch
            BY <1>0, <2>1, <3>1
            DEF CheckLatch, Goto, Stale, StopOnItsWay, motorSide, driverSide
        <3>2. CASE ~CheckLatch
            BY <1>2, <2>1, <3>2
            DEF MotorStep, CheckActive, ReadAge, CheckTtl, Lapse, ReadLinear,
                ReadAngular, MixTargets, WriteTarget, RampRead, RampWrite, ReadOutput,
                At, Stale, Busy
        <3>. QED BY <3>1, <3>2
    <2>. QED BY <1>0, <2>1, <2>2, <2>3 DEF StopOnItsWay, Deadline, AtRest
<1>. QED BY <1>1, <1>2, StopApply

LEMMA StopSubmitter ==
    ASSUME ThreadsType, ThreadOnTime, StopOnItsWay,
           NEW t \in Submitters, SubmitterStep(t)
    PROVE  StopOnItsWay'
<1>0. /\ UNCHANGED <<local, wake_at, last, drive, faults, false_start, uptime, updated_at>>
      /\ (Busy("motor")' <=> Busy("motor")) /\ (Stale' <=> Stale)
      /\ pc'["motor"] = pc["motor"]
    BY SubmitterFrame DEF motorSide, driverSide, updateVars, Busy, Stale
<1>1. CASE emergency_stop_latched' /\ ~emergency_stop_latched
    <2>1. estop_at' = uptime
        BY <1>1
        DEF SubmitterStep, Submit, HandleSetSpeed, StopReleasesLatch, EStopLatches,
            Deactivate, ZeroTarget, ZeroOutput, GotoOrFinish, MotionChecksLatch,
            MotionCopiesLinear, MotionCopiesRest, MotionDefaultsTtl, MotionLimits,
            MotionStamps, MotionActivates, flags, vars
    <2>. DEFINE r == faults * RetryTime
    <2>2. /\ r \in Nat /\ Jitter \in Nat /\ uptime \in Nat /\ updated_at \in Nat
          /\ wake_at \in Nat /\ updated_at <= uptime
          /\ ~Busy("motor") => wake_at <= uptime + LOOP_PERIOD_MS
        BY RetryArith DEF ThreadOnTime
    <2>3. \A ms : Deadline(ms)' = uptime + ms + r
        BY <1>0, <2>1 DEF Deadline
    <2>. HIDE DEF r
    <2>4. updated_at <= uptime + (LOOP_PERIOD_MS + 2 * Jitter) + r
        BY <2>2 DEF LOOP_PERIOD_MS
    <2>5. ~Busy("motor") => wake_at <= uptime + (LOOP_PERIOD_MS + Jitter) + r
        BY <2>2 DEF LOOP_PERIOD_MS
    <2>. QED BY <1>0, <2>1, <2>2, <2>3, <2>4, <2>5 DEF StopOnItsWay, AtRest
<1>2. CASE ~emergency_stop_latched'
    BY <1>0, <1>2 DEF StopOnItsWay, AtRest
<1>3. CASE emergency_stop_latched' /\ emergency_stop_latched
    <2>1. estop_at' = estop_at
        BY <1>3
        DEF SubmitterStep, Submit, HandleSetSpeed, StopReleasesLatch, EStopLatches,
            Deactivate, ZeroTarget, ZeroOutput, GotoOrFinish, MotionChecksLatch,
            MotionCopiesLinear, MotionCopiesRest, MotionDefaultsTtl, MotionLimits,
            MotionStamps, MotionActivates, submitSide
    <2>. QED BY <1>0, <1>3, <2>1 DEF StopOnItsWay, Deadline, AtRest
<1>. QED BY <1>1, <1>2, <1>3

LEMMA StopNext ==
    ThreadsType /\ ThreadOnTime /\ StopOnItsWay /\ [ThreadsNext]_allVars
        => StopOnItsWay'
<1>. SUFFICES ASSUME ThreadsType, ThreadOnTime, StopOnItsWay, [ThreadsNext]_allVars
              PROVE  StopOnItsWay'
    OBVIOUS
<1>1. ASSUME NEW d \in UptimeSteps, Pass(d) PROVE StopOnItsWay'
    <2>1. /\ uptime <= uptime' /\ uptime' \in Nat /\ uptime \in Nat /\ estop_at \in Nat
        BY <1>1, ClockAssumption DEF Pass, ThreadsType, TypeOK, ThreadOnTime
    <2>2. UNCHANGED <<emergency_stop_latched, updated_at, threadVars>>
        BY <1>1 DEF Pass, updateVars, flags
    <2>. QED BY <2>1, <2>2 DEF threadVars, StopOnItsWay, Stale, Busy, Deadline, AtRest
<1>2. CASE UNCHANGED allVars
    BY <1>2 DEF allVars, vars, threadVars, updateVars, StopOnItsWay, Stale, Busy,
        Deadline, AtRest
<1>. QED BY <1>1, <1>2, StopMotor, StopSubmitter DEF ThreadsNext

\* Whatever update or command is under way when the emergency stop is latched, and
\* however many driver calls fail, every motor is off within a response time and a
\* retry per failure, unless the driver's last call failed on leaving rest.
THEOREM EStopInTimeCorrect == ThreadsSpec => []EStopStopsInTime
<1>1. ThreadsType /\ ThreadOnTime /\ StopOnItsWay => EStopStopsInTime
    <2>. SUFFICES ASSUME ThreadsType, ThreadOnTime, StopOnItsWay, emergency_stop_latched,
                         uptime - estop_at > ResponseTime + faults * RetryTime
                  PROVE  AtRest
        BY DEF EStopStopsInTime, StopIsDue, StopOnItsWay
    <2>. SUFFICES ASSUME ~AtRest PROVE FALSE
        OBVIOUS
    <2>. DEFINE r == faults * RetryTime
    <2>1. /\ r \in Nat /\ Jitter \in Nat /\ uptime \in Nat /\ updated_at \in Nat
          /\ wake_at \in Nat /\ estop_at \in Nat
          /\ uptime - estop_at > LOOP_PERIOD_MS + 3 * Jitter + r
        BY RetryArith DEF ThreadOnTime, ResponseTime
    <2>2. CASE Busy("motor")
        <3>1. updated_at <= estop_at + (LOOP_PERIOD_MS + 2 * Jitter) + r
            BY <2>2 DEF StopOnItsWay, Deadline, AtRest
        <3>2. uptime <= updated_at + Jitter
            BY <2>2 DEF ThreadOnTime
        <3>. HIDE DEF r
        <3>. QED BY <2>1, <3>1, <3>2 DEF LOOP_PERIOD_MS
    <2>3. CASE ~Busy("motor")
        <3>1. wake_at <= estop_at + (LOOP_PERIOD_MS + Jitter) + r
            BY <2>3 DEF StopOnItsWay, Deadline, AtRest
        <3>2. uptime <= wake_at + Jitter
            BY <2>3 DEF ThreadOnTime
        <3>. HIDE DEF r
        <3>. QED BY <2>1, <3>1, <3>2 DEF LOOP_PERIOD_MS
    <2>. QED BY <2>2, <2>3
<1>2. ThreadsSpec => []ThreadsType
    BY ThreadsTypeInit, ThreadsTypeNext, PTL DEF ThreadsSpec
<1>3. ThreadsSpec => []ThreadOnTime
    BY <1>2, StopInit, ThreadOnTimeNext, PTL DEF ThreadsSpec
<1>4. ThreadsSpec => []StopOnItsWay
    BY <1>2, <1>3, StopInit, StopNext, PTL DEF ThreadsSpec
<1>. QED BY <1>1, <1>2, <1>3, <1>4, PTL

=============================================================================
