\* A launch of three processes, scans of /proc that clients ask for, a restart.
CONSTANTS
    Pids = {p1, p2, p3}
    Launches = {l1}
    Nobody = Nobody
    NoSession = NoSession
    NoEntry = NoEntry
    Waiting = Waiting
    Idle = Idle
    MaxRuns = 1
    MaxSessions = 4
    MaxCrashes = 1
    ForksDuringScan = FALSE
SPECIFICATION LaunchSpec
INVARIANT RecordsAreWatched
PROPERTY ImplementsLifetime
CHECK_DEADLOCK FALSE
