\* Pids named twice, and a registry that is full with one session.
CONSTANTS
    Pids = {p1, p2}
    Launches = {l1, l2}
    Nobody = Nobody
    NoSession = NoSession
    NoEntry = NoEntry
    Waiting = Waiting
    Idle = Idle
    MaxRuns = 2
    MaxSessions = 1
    MaxCrashes = 0
    ForksDuringScan = TRUE
SPECIFICATION Spec
INVARIANTS SessionIsItsProcess
CHECK_DEADLOCK FALSE
