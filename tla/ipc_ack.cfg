SPECIFICATION IpcSpec
CONSTANTS
    SAFE_MAX_SPEED_LIMIT_PCT = 2
    NULL = NULL
    Config <- MCConfig
    Commands = {}
    TimeMod = 1000
    UptimeSteps = {10}
    MaxUpdateGap = 20
    MaxUptime = 90
    Services = {udp4, udp6}
    Datagrams <- MCDatagrams
    MaxDelay = 10
    MaxDatagrams = 2
INVARIANTS
    OkMeansDone
