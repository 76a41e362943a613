\* A machine that may sleep, and engines that exit or outlive their stop: games, a child,
\* a stop and parks.
CONSTANTS
    g1 = g1
    g2 = g2
    g3 = g3
    stock = stock
    quiet = quiet
    calm = calm
    fast = fast
    Gpus = {g1}
    Profiles = {stock, quiet, calm, fast}
    Stock = stock
    NoGpu = NoGpu
    Engines = {e1, e2}
    Pids = {p1}
    None = None
    Idle = Idle
    Dirty = Dirty
    StandingSpecs <- QuietFan
    GameSpecs <- Fast
    BootChoices <- QuietOrStockBoot
    Present = {g1}
    DeepSleep = TRUE
    Faults = {"wedge", "exit"}
    MaxChildren = 1
    MaxClears = 1
SPECIFICATION LiveSpec
INVARIANTS OneWriter
PROPERTIES IntentRuns
