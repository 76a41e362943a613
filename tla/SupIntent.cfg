\* Applies to two GPUs that fail, stops, crashes and a game with a fan curve to keep.
CONSTANTS
    g1 = g1
    g2 = g2
    g3 = g3
    stock = stock
    quiet = quiet
    calm = calm
    fast = fast
    Gpus = {g1, g2}
    Profiles = {stock, quiet, calm, fast}
    Stock = stock
    NoGpu = NoGpu
    Engines = {e1, e2}
    Pids = {p1}
    None = None
    Idle = Idle
    Dirty = Dirty
    StandingSpecs <- QuietFanOrSecond
    GameSpecs <- FastOrStock
    BootChoices <- QuietBoot
    Present = {g1, g2}
    DeepSleep = FALSE
    Faults = {"fail"}
    MaxChildren = 1
    MaxClears = 1
SPECIFICATION Spec
INVARIANTS PersistedIntent StandingSurvives FanKept GamesStayTemporary
