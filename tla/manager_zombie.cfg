SPECIFICATION Spec
CONSTANTS
    SAFE_MAX_SPEED_LIMIT_PCT = 3
    NULL = NULL
    Config <- MCConfig
    Commands <- FewCommands
    TimeMod = 60
    UptimeSteps = {20}
    MaxUpdateGap = 20
    MaxUptime = 120
INVARIANT OnlyFreshCommandsDrive
