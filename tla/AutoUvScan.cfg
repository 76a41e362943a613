SPECIFICATION LiveSpec
CONSTANTS
    Curve <- TwoBins
    ClockStep = 15
    Order <- TwoTiers
    Regime <- MCRegime
    Load <- MCLoad
    Attempts = 1
    Retry = FALSE
    Discards = {"performance"}
    Verdicts <- Faults
    Drifts = TRUE
    MaxStarts = 2
INVARIANTS NoSecondDeath NothingForgotten CompletedTierRests ReportedAsSaved
PROPERTIES ScanEnds ImplementsLedger
CHECK_DEADLOCK FALSE
