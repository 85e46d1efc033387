SPECIFICATION FairSpec
CONSTANTS
    SAFE_MAX_SPEED_LIMIT_PCT = 3
    NULL = NULL
    Config <- MCConfig
    Commands <- MCCommands
    TimeMod = 1000
    UptimeSteps = {20}
    MaxUpdateGap = 40
    MaxUptime = 80
INVARIANTS TypeOK OutputWithinSafeLimit EStopHolds DeadManInvariant FreshCommandNotExpired
PROPERTIES RampKeepsTime ImplementsSafeVehicle ComesToRest LoweredLimitObeyed RampConverges
