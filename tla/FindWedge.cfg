\* An engine that wedges as the game ends.
CONSTANTS
    g1 = g1
    g2 = g2
    g3 = g3
    stock = stock
    quiet = quiet
    calm = calm
    fast = fast
    Gpus = {g1}
    Profiles = {stock, quiet, calm, fast}
    Stock = stock
    NoGpu = NoGpu
    Engines = {e1, e2}
    Pids = {p1}
    None = None
    Idle = Idle
    Dirty = Dirty
    StandingSpecs <- QuietFan
    GameSpecs <- Fast
    BootChoices <- NoBoot
    Present = {g1}
    DeepSleep = FALSE
    Faults = {"wedge"}
    MaxChildren = 0
    MaxClears = 0
SPECIFICATION LiveSpec
PROPERTIES GameEndsRestores
