SPECIFICATION ThreadsSpec
CONSTANTS
    SAFE_MAX_SPEED_LIMIT_PCT = 2
    NULL = NULL
    Config <- MCConfig
    Commands = {}
    TimeMod = 1000
    UptimeSteps = {20}
    MaxUpdateGap = 60
    MaxUptime = 180
    Submitters <- MCSubmitters
    CommandsOf <- StopCommandsOf
    Priority <- MCPriority
    TimeSlicing = FALSE
    MotorOrder <- MCMotorOrder
    LeftMotors <- MCLeftMotors
    Jitter = 20
    MaxCommands = 2
    MaxFaults = 1
INVARIANTS EStopStopsInTime
CHECK_DEADLOCK FALSE
