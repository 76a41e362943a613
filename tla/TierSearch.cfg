\* All three tiers on eight voltages and five clocks; ladders of four steps.
SPECIFICATION Spec
CONSTANTS
    Curve <- MCCurve
    ClockStep = 15
    Setups <- MCSetups
    Records <- MCRecords
    Floor = 812
    Target <- MCTarget
    Steps = 4
    Headroom = 2
    StopDrop = 2
    StopStreak = 1
INVARIANTS TestedBeforeSoak OneUnsafePerClimb FloorNotSoaked SoaksRetreat
