SPECIFICATION ThreadsSpec
CONSTANTS
    SAFE_MAX_SPEED_LIMIT_PCT = 2
    NULL = NULL
    Config <- MCConfig
    Commands = {}
    TimeMod = 1000
    UptimeSteps = {20}
    MaxUpdateGap = 60
    MaxUptime = 40
    Submitters <- MCSubmitters
    CommandsOf <- MCCommandsOf
    Priority <- MCPriority
    TimeSlicing = TRUE
    MotorOrder <- MCMotorOrder
    LeftMotors <- MCLeftMotors
    Jitter = 20
    MaxCommands = 3
    MaxFaults = 0
INVARIANTS ThreadsTypeOK MotorsWithinSafeLimit LapseIsDeserved
PROPERTIES NoReversalUnderRaces
CHECK_DEADLOCK FALSE
