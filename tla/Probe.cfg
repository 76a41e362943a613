\* Every way to combine the two workloads, with limits of one to three passes.
CONSTANTS
    Modes = {"none", "serial", "together"}
    Hang = 1
    Limit = 3
    Target = 2
    MinSamples = 2
    Streak = 2
    Readings = {"busy", "idle"}
    Stalls = {"setup", "load"}
    GameEvents = {"start", "measure", "frame", "pulse", "good"}
    MaxUnread = 2
    MaxBeside = 1
    Marked = TRUE
SPECIFICATION Spec
INVARIANTS PassIsSound NothingOutlives HealthyIsKept HangIsConfirmed CrashIsRecorded
PROPERTIES ProbeEnds
