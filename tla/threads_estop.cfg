SPECIFICATION ThreadsSpec
CONSTANTS
    SAFE_MAX_SPEED_LIMIT_PCT = 2
    NULL = NULL
    Config <- MCConfig
    Commands = {}
    TimeMod = 1000
    UptimeSteps = {10}
    MaxUpdateGap = 40
    MaxUptime = 80
    Submitters <- UdpOnly
    CommandsOf <- UdpCommandsOf
    Priority <- MCPriority
    TimeSlicing = FALSE
    MotorOrder <- MCMotorOrder
    LeftMotors <- MCLeftMotors
    Jitter = 10
    MaxCommands = 2
    MaxFaults = 0
INVARIANTS EStopTakesEffect
CHECK_DEADLOCK FALSE
