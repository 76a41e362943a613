\* Games on a second GPU and children, undisturbed, or the boot set of three GPUs,
\* crashes and a child.
CONSTANTS
    g1 = g1
    g2 = g2
    g3 = g3
    stock = stock
    quiet = quiet
    calm = calm
    fast = fast
    Gpus = {g1, g2, g3}
    Profiles = {stock, quiet, calm, fast}
    Stock = stock
    NoGpu = NoGpu
    Engines = {e1, e2}
    Pids = {p1, p2}
    None = None
    Idle = Idle
    Dirty = Dirty
    StandingSpecs <- QuietOnBoth
    GameSpecs <- FastOnSecond
    BootChoices <- NoneOrThree
    Present = {g1, g2}
    DeepSleep = FALSE
    Faults = {}
    MaxChildren = 2
    MaxClears = 0
SPECIFICATION CalmSpec
INVARIANTS ChildKept GamesLeaveNothing BootSetApplied
PROPERTIES GameEndsRestores BootAppliesOnce IntentRuns
