SPECIFICATION MCFairSpec
CONSTANTS
    eth0 = eth0
    wlan0 = wlan0
    tun0 = tun0
    none = none
    Interfaces <- MCInterfaces
    Tuns <- MCTuns
    SlowAnswers = FALSE
    ForeignRoutes <- MCForeignRoutes
    SetWhileRunning = FALSE
    Listed <- MCTuns
    NoInterface = none
    Routes <- MCRoutes
    OneRouteEach = TRUE
    ReloadMayFail = TRUE
    MaxChanges = 2
    MaxAddr = 1
    QueueMax = 2
    MaxBatch = 2
    MaxStarts = 2
    PathInterfaces <- MCPathInterfaces
    Tunnels <- MCTuns
    NoName = none
    NoPath = NoPath
    Racing = TRUE
    MaxPaths = 2
    MaxMonitors = 2
    Builds = {"apple"}
PROPERTY StartReturns
CHECK_DEADLOCK FALSE
